---- MODULE Spec2Model ----
(***************************************************************************)
(* MoneyTracker: the local persistence and aggregation layer.              *)
(*                                                                         *)
(* The model has three layers, as the repository has:                      *)
(*   - the SQLite database (schema of src/App.tsx, statements of           *)
(*     src/services/ExpenseService.ts and of the stores),                  *)
(*   - the two variants of the zustand store useExpensesStore              *)
(*     (src/unnamed/part_001): the "reload" variant, which re-reads both   *)
(*     tables after every write, and the "aggregate" variant, which        *)
(*     patches its cache locally and keeps the monthly totals,             *)
(*   - the Edit Expense screen handlers (src/screens/DashboardScreen.tsx). *)
(*                                                                         *)
(* Text is a sequence of character codes, so that trim() and the UNIQUE    *)
(* constraint act on what is really stored.  A date is the ordinal of an   *)
(* instant; canonical ISO-8601 strings compare the same way.  An amount is *)
(* a binary floating-point number with MantissaBits bits of precision, a   *)
(* scaled-down double: sums round.                                         *)
(***************************************************************************)
EXTENDS Integers, Sequences, FiniteSets, TLC

(***************************************************************************)
(* Bounds                                                                  *)
(***************************************************************************)
MaxCategoryAdds == 1       \* category rows inserted after the seed
MaxExpenseAdds == 2        \* expense rows inserted
MaxDate == 3               \* dates and window bounds range over 0..MaxDate
MaxClock == 0              \* the clock reads MonthLen..MonthLen + MaxClock
MonthLen == 2              \* a "month" is MonthLen consecutive instants
MantissaBits == 3          \* precision of the scaled-down double
MaxSeeds == 2              \* times the default categories are inserted
MaxYears == 2              \* the wall clock reads FirstYear..FirstYear + MaxYears - 1
MaxEffects == 2            \* runs of the effect of App
MaxTasks == 2              \* calls in flight at once

(***************************************************************************)
(* Text                                                                    *)
(***************************************************************************)
SP == 32
Food == <<70, 111, 111, 100>>
Transport == <<84, 114, 97, 110, 115, 112, 111, 114, 116>>
Shopping == <<83, 104, 111, 112, 112, 105, 110, 103>>
Bills == <<66, 105, 108, 108, 115>>
Entertainment == <<69, 110, 116, 101, 114, 116, 97, 105, 110, 109, 101, 110, 116>>
Other == <<79, 116, 104, 101, 114>>

\* String.prototype.trim
RECURSIVE TrimLeft(_)
TrimLeft(s) ==
  IF s = <<>> THEN s
  ELSE IF Head(s) = SP THEN TrimLeft(Tail(s)) ELSE s

RECURSIVE TrimRight(_)
TrimRight(s) ==
  IF s = <<>> THEN s
  ELSE IF s[Len(s)] = SP THEN TrimRight(SubSeq(s, 1, Len(s) - 1)) ELSE s

trim(s) == TrimRight(TrimLeft(s))

\* BINARY collation: a < b
RECURSIVE TextLess(_, _)
TextLess(a, b) ==
  IF b = <<>> THEN FALSE
  ELSE IF a = <<>> THEN TRUE
  ELSE IF Head(a) < Head(b) THEN TRUE
  ELSE IF Head(a) > Head(b) THEN FALSE
  ELSE TextLess(Tail(a), Tail(b))

(***************************************************************************)
(* Numbers: REAL columns and JS numbers                                    *)
(***************************************************************************)
Abs(x) == IF x < 0 THEN -x ELSE x

RECURSIVE Pow2(_)
Pow2(n) == IF n = 0 THEN 1 ELSE 2 * Pow2(n - 1)

\* the unit in the last place for magnitude m
RECURSIVE Ulp(_, _)
Ulp(m, u) == IF m < u * Pow2(MantissaBits) THEN u ELSE Ulp(m, 2 * u)

\* round to nearest, ties to even
Round(x) ==
  LET m == Abs(x)
      u == Ulp(m, 1)
      q == m \div u
      r == m % u
      up == \/ 2 * r > u
            \/ 2 * r = u /\ q % 2 = 1
      v == (IF up THEN q + 1 ELSE q) * u
  IN IF x < 0 THEN -v ELSE v

FAdd(a, b) == Round(a + b)

(***************************************************************************)
(* Numbers read from text.  The amounts of the model are whole numbers, so *)
(* the grammar has no fraction and no exponent.                            *)
(***************************************************************************)
\* NaN is a value that no text of the model parses to.  Like the NaN of JS it
\* is not greater than 0; the code compares it in no other way.
NaN == -1073741824

isNaN(x) == x = NaN

IsDigit(c) == c \in 48..57
IsHexDigit(c) == c \in (48..57) \cup (97..102)
HexDigitValue(c) == IF c \in 48..57 THEN c - 48 ELSE c - 87

\* the value of a run of digits in base b
RECURSIVE DigitsValue(_, _)
DigitsValue(s, b) ==
  IF s = <<>> THEN 0
  ELSE DigitsValue(SubSeq(s, 1, Len(s) - 1), b) * b + HexDigitValue(s[Len(s)])

\* the longest prefix of s made of decimal digits
RECURSIVE DigitPrefix(_)
DigitPrefix(s) ==
  IF s = <<>> \/ ~IsDigit(Head(s)) THEN <<>>
  ELSE <<Head(s)>> \o DigitPrefix(Tail(s))

\* - or + in front of a decimal literal
Signed(s) == s # <<>> /\ Head(s) \in {43, 45}
Unsigned(s) == IF Signed(s) THEN Tail(s) ELSE s
SignOf(s) == IF s # <<>> /\ Head(s) = 45 THEN -1 ELSE 1

\* Number(text): the whole trimmed text is a numeric literal, decimal or
\* hexadecimal (0x...); the empty text is 0; anything else is NaN
Number(text) ==
  LET t == trim(text)
  IN IF t = <<>> THEN 0
     ELSE IF Len(t) >= 3 /\ t[1] = 48 /\ t[2] \in {88, 120}
            /\ \A i \in 3..Len(t) : IsHexDigit(t[i])
       THEN DigitsValue(SubSeq(t, 3, Len(t)), 16)
     ELSE IF Unsigned(t) # <<>> /\ \A i \in DOMAIN Unsigned(t) : IsDigit(Unsigned(t)[i])
       THEN SignOf(t) * DigitsValue(Unsigned(t), 10)
     ELSE NaN

\* parseFloat(text): the longest decimal literal the text starts with, after
\* leading white space; NaN when there is none
parseFloat(text) ==
  LET t == TrimLeft(text)
      digits == DigitPrefix(Unsigned(t))
  IN IF digits = <<>> THEN NaN ELSE SignOf(t) * DigitsValue(digits, 10)

(***************************************************************************)
(* Inputs                                                                  *)
(***************************************************************************)
Undefined == "<undefined>"
Null == "<null>"

\* arguments of the calls the app makes
NameInputs == {Food, <<SP>> \o Food}
ColorInputs == {"#111111"}
AmountInputs == {1}
DateInputs == {1, 2}
NotesInputs == {Undefined}
CategoryIdInputs == {1, 7}

\* arguments of the calls made on the repository directly
RepoAmountInputs == {1, 8}
RepoCategoryIdInputs == {1, 2}
\* updateExpense takes any number: amount: parseFloat(amount) of the form's text
RepoUpdateAmountInputs == {-1, 1}
Dates == 0..MaxDate

(***************************************************************************)
(* Schema and seed                                                         *)
(***************************************************************************)
DEFAULT_CATEGORIES ==
  << [name |-> Food, color |-> "#FF6B6B"],
     [name |-> Transport, color |-> "#4D96FF"],
     [name |-> Shopping, color |-> "#F2C94C"],
     [name |-> Bills, color |-> "#9B51E0"],
     [name |-> Entertainment, color |-> "#00BFA6"],
     [name |-> Other, color |-> "#6C63FF"] >>

MaxCategoryId == Len(DEFAULT_CATEGORIES) + MaxCategoryAdds

\* the last rowid of categories the model reaches
MaxRowId == MaxSeeds * Len(DEFAULT_CATEGORIES) + MaxCategoryAdds

\* the database file before the first run: no tables, no rows.  seeds is
\* history: the number of runs of initializeDatabase that inserted default
\* categories.
EmptyDB ==
  [ schema |-> FALSE, foreignKeys |-> FALSE,
    categories |-> {}, expenses |-> {},
    seqCategories |-> 0, seqExpenses |-> 0, seeds |-> 0 ]

(***************************************************************************)
(* SQL statements.  Each takes the database and returns the database after *)
(* the statement, the error it raised ("none" if it succeeded) and the     *)
(* rowid it inserted.                                                      *)
(***************************************************************************)
Failed(d, e) == [db |-> d, err |-> e, id |-> 0]

\* INSERT INTO categories (name, color) VALUES (?, ?);   name TEXT NOT NULL UNIQUE
InsertCategory(d, name, color) ==
  IF ~d.schema THEN Failed(d, "NoSuchTable")
  ELSE IF \E c \in d.categories : c.name = name
    THEN Failed(d, "ConstraintViolation")
  ELSE [ db |-> [d EXCEPT
                   !.categories = @ \cup {[id |-> d.seqCategories + 1,
                                           name |-> name, color |-> color]},
                   !.seqCategories = @ + 1],
         err |-> "none", id |-> d.seqCategories + 1 ]

\* the constraint left unchecked
ForeignKeyOk_Unchecked(d, categoryId) == TRUE

\* FOREIGN KEY (category_id) REFERENCES categories (id), under PRAGMA foreign_keys
ForeignKeyOk(d, categoryId) ==
  d.foreignKeys => \E c \in d.categories : c.id = categoryId

\* amount REAL NOT NULL: a NaN is bound as NULL
NotNullOk(amount) == ~isNaN(amount)

\* INSERT INTO expenses (amount, category_id, date, notes) VALUES (?, ?, ?, ?);
InsertExpense(d, amount, categoryId, date, notes) ==
  IF ~d.schema THEN Failed(d, "NoSuchTable")
  ELSE IF ~NotNullOk(amount) THEN Failed(d, "ConstraintViolation")
  ELSE IF ~ForeignKeyOk(d, categoryId) THEN Failed(d, "ForeignKeyViolation")
  ELSE [ db |-> [d EXCEPT
                   !.expenses = @ \cup {[id |-> d.seqExpenses + 1, amount |-> amount,
                                         categoryId |-> categoryId, date |-> date,
                                         notes |-> notes]},
                   !.seqExpenses = @ + 1],
         err |-> "none", id |-> d.seqExpenses + 1 ]

\* a foreign key without ON DELETE CASCADE
CascadeDelete_None(d, id) == d.expenses

\* ON DELETE CASCADE, under PRAGMA foreign_keys
CascadeDelete(d, id) ==
  IF d.foreignKeys THEN {e \in d.expenses : e.categoryId # id} ELSE d.expenses

\* DELETE FROM categories WHERE id = ?;
DeleteCategoryRow(d, id) ==
  IF ~d.schema THEN Failed(d, "NoSuchTable")
  ELSE [ db |-> [d EXCEPT
                   !.categories = {c \in @ : c.id # id},
                   !.expenses = IF \E c \in d.categories : c.id = id
                                  THEN CascadeDelete(d, id) ELSE @],
         err |-> "none", id |-> 0 ]

\* the UPDATE without its WHERE clause
UpdateExpenseRow_NoWhere(d, id, amount, categoryId, date, notes) ==
  IF ~d.schema THEN Failed(d, "NoSuchTable")
  ELSE IF d.expenses # {} /\ ~NotNullOk(amount) THEN Failed(d, "ConstraintViolation")
  ELSE IF d.expenses # {} /\ ~ForeignKeyOk(d, categoryId)
    THEN Failed(d, "ForeignKeyViolation")
  ELSE [ db |-> [d EXCEPT
                   !.expenses = {[e EXCEPT !.amount = amount,
                                           !.categoryId = categoryId,
                                           !.date = date, !.notes = notes] : e \in @}],
         err |-> "none", id |-> 0 ]

\* UPDATE expenses SET amount = ?, category_id = ?, date = ?, notes = ? WHERE id = ?;
UpdateExpenseRow(d, id, amount, categoryId, date, notes) ==
  IF ~d.schema THEN Failed(d, "NoSuchTable")
  ELSE IF (\E e \in d.expenses : e.id = id) /\ ~NotNullOk(amount)
    THEN Failed(d, "ConstraintViolation")
  ELSE IF (\E e \in d.expenses : e.id = id) /\ ~ForeignKeyOk(d, categoryId)
    THEN Failed(d, "ForeignKeyViolation")
  ELSE [ db |-> [d EXCEPT
                   !.expenses = {IF e.id = id
                                   THEN [e EXCEPT !.amount = amount,
                                                  !.categoryId = categoryId,
                                                  !.date = date, !.notes = notes]
                                   ELSE e : e \in @}],
         err |-> "none", id |-> 0 ]

\* a delete that raises when it matches no row
DeleteExpenseRow_Strict(d, id) ==
  IF ~d.schema THEN Failed(d, "NoSuchTable")
  ELSE IF \A e \in d.expenses : e.id # id THEN Failed(d, "NotFound")
  ELSE [ db |-> [d EXCEPT !.expenses = {e \in @ : e.id # id}],
         err |-> "none", id |-> 0 ]

\* DELETE FROM expenses WHERE id = ?;
DeleteExpenseRow(d, id) ==
  IF ~d.schema THEN Failed(d, "NoSuchTable")
  ELSE [ db |-> [d EXCEPT !.expenses = {e \in @ : e.id # id}],
         err |-> "none", id |-> 0 ]

(***************************************************************************)
(* Queries.  A result is the sequence of rows in the ORDER BY order.       *)
(***************************************************************************)
\* ORDER BY name ASC
RECURSIVE OrderByNameAsc(_)
OrderByNameAsc(S) ==
  IF S = {} THEN <<>>
  ELSE LET c == CHOOSE x \in S : \A y \in S : ~TextLess(y.name, x.name)
       IN <<c>> \o OrderByNameAsc(S \ {c})

\* ORDER BY id ASC
RECURSIVE OrderByIdAsc(_)
OrderByIdAsc(S) ==
  IF S = {} THEN <<>>
  ELSE LET c == CHOOSE x \in S : \A y \in S : x.id <= y.id
       IN <<c>> \o OrderByIdAsc(S \ {c})

\* the tie-break left to the rowid order
RECURSIVE OrderByDateDescIdDesc_IdAsc(_)
OrderByDateDescIdDesc_IdAsc(S) ==
  IF S = {} THEN <<>>
  ELSE LET e == CHOOSE x \in S : \A y \in S :
                  \/ x.date > y.date
                  \/ x.date = y.date /\ x.id <= y.id
       IN <<e>> \o OrderByDateDescIdDesc_IdAsc(S \ {e})

\* ORDER BY date DESC, id DESC
RECURSIVE OrderByDateDescIdDesc(_)
OrderByDateDescIdDesc(S) ==
  IF S = {} THEN <<>>
  ELSE LET e == CHOOSE x \in S : \A y \in S :
                  \/ x.date > y.date
                  \/ x.date = y.date /\ x.id >= y.id
       IN <<e>> \o OrderByDateDescIdDesc(S \ {e})

\* ORDER BY date DESC: rows of one date come in an order the engine chooses
RECURSIVE OrderByDateDesc(_)
OrderByDateDesc(S) ==
  IF S = {} THEN {<<>>}
  ELSE UNION { { <<e>> \o rest : rest \in OrderByDateDesc(S \ {e}) } :
               e \in {x \in S : \A y \in S : x.date >= y.date} }

\* date <= ? for date < ?
InDateRange_Closed(date, fromISO, toISO) == date >= fromISO /\ date <= toISO

\* WHERE date >= ? AND date < ?
InDateRange(date, fromISO, toISO) == date >= fromISO /\ date < toISO

\* ExpenseService.getCategories
getCategories(d) == OrderByNameAsc(d.categories)

\* export const getCategories: SELECT * FROM categories ORDER BY id ASC;
Exported_getCategories(d) == OrderByIdAsc(d.categories)

\* ExpenseService.getAllExpenses
getAllExpenses(d) == OrderByDateDescIdDesc(d.expenses)

\* ExpenseService.getExpensesInDateRange
getExpensesInDateRange(d, fromISO, toISO) ==
  OrderByDateDescIdDesc({e \in d.expenses : InDateRange(e.date, fromISO, toISO)})

\* SUM(e.amount) over the rows of one group, in rowid order; NULL for no row
RECURSIVE SumSeq(_)
SumSeq(s) ==
  IF Len(s) = 1 THEN s[1].amount
  ELSE FAdd(SumSeq(SubSeq(s, 1, Len(s) - 1)), s[Len(s)].amount)

SUM(rows) ==
  IF rows = {} THEN [isNull |-> TRUE, v |-> 0]
  ELSE [isNull |-> FALSE, v |-> SumSeq(OrderByIdAsc(rows))]

\* the join without its date condition
JoinedRows_AnyDate(d, c, fromISO, toISO) ==
  {e \in d.expenses : e.categoryId = c.id}

\* FROM categories c LEFT JOIN expenses e ON e.category_id = c.id AND e.date >= ? AND e.date < ?
JoinedRows(d, c, fromISO, toISO) ==
  {e \in d.expenses : e.categoryId = c.id /\ InDateRange(e.date, fromISO, toISO)}

\* an inner join for the LEFT JOIN
GroupRows_InnerJoin(d, fromISO, toISO) ==
  { [categoryId |-> c.id, categoryName |-> c.name, color |-> c.color,
     total |-> SUM(JoinedRows(d, c, fromISO, toISO))] :
    c \in {x \in d.categories : JoinedRows(d, x, fromISO, toISO) # {}} }

\* GROUP BY c.id, c.name, c.color
GroupRows(d, fromISO, toISO) ==
  { [categoryId |-> c.id, categoryName |-> c.name, color |-> c.color,
     total |-> SUM(JoinedRows(d, c, fromISO, toISO))] : c \in d.categories }

\* ORDER BY total DESC: NULL sorts below every number; groups of one total
\* stay in group order
TotalBefore(x, y) ==
  \/ ~x.total.isNull /\ y.total.isNull
  \/ ~x.total.isNull /\ ~y.total.isNull /\ x.total.v > y.total.v
  \/ x.total.isNull = y.total.isNull
     /\ (x.total.isNull \/ x.total.v = y.total.v)
     /\ x.categoryId <= y.categoryId

RECURSIVE OrderByTotalDesc(_)
OrderByTotalDesc(S) ==
  IF S = {} THEN <<>>
  ELSE LET r == CHOOSE x \in S : \A y \in S : TotalBefore(x, y)
       IN <<r>> \o OrderByTotalDesc(S \ {r})

\* total: Number(r.total ?? 0)
ToCategoryTotal(r) ==
  [categoryId |-> r.categoryId, categoryName |-> r.categoryName, color |-> r.color,
   total |-> IF r.total.isNull THEN 0 ELSE r.total.v]

\* ExpenseService.getCategoryTotals
getCategoryTotals(d, fromISO, toISO) ==
  LET rows == OrderByTotalDesc(GroupRows(d, fromISO, toISO))
  IN [i \in 1..Len(rows) |-> ToCategoryTotal(rows[i])]

\* monthBounds: the month of instant t is [startISO, endISO)
monthBounds(t) ==
  [startISO |-> (t \div MonthLen) * MonthLen,
   endISO |-> ((t \div MonthLen) + 1) * MonthLen]

(***************************************************************************)
(* The Date of JS.  A time value is a day number since 1970-01-01 and the  *)
(* milliseconds within that day, the Day(t) and TimeWithinDay(t) of the    *)
(* language; a date text is a sequence of character codes.                 *)
(***************************************************************************)
msPerDay == 86400000
msPerMinute == 60000

DaysInYear(y) ==
  IF y % 4 # 0 THEN 365
  ELSE IF y % 100 # 0 THEN 366
  ELSE IF y % 400 # 0 THEN 365 ELSE 366

DayFromYear(y) ==
  365 * (y - 1970) + ((y - 1969) \div 4) - ((y - 1901) \div 100)
    + ((y - 1601) \div 400)

YearFromDay(day) ==
  CHOOSE y \in (1969 + (day \div 366))..(1971 + (day \div 365)) :
    DayFromYear(y) <= day /\ day < DayFromYear(y + 1)

LeapDays(y) == IF DaysInYear(y) = 366 THEN 1 ELSE 0

\* the day within the year on which month m (0..11) starts; 12: the year's end
MonthStart(m, leap) ==
  <<0, 31, 59 + leap, 90 + leap, 120 + leap, 151 + leap, 181 + leap, 212 + leap,
    243 + leap, 273 + leap, 304 + leap, 334 + leap, 365 + leap>>[m + 1]

DayWithinYear(day) == day - DayFromYear(YearFromDay(day))

MonthFromDay(day) ==
  CHOOSE m \in 0..11 :
    /\ MonthStart(m, LeapDays(YearFromDay(day))) <= DayWithinYear(day)
    /\ DayWithinYear(day) < MonthStart(m + 1, LeapDays(YearFromDay(day)))

DateFromDay(day) ==
  DayWithinYear(day) - MonthStart(MonthFromDay(day), LeapDays(YearFromDay(day))) + 1

\* a month kept within its year, whatever its number
MakeDay_NoCarry(year, month, date) ==
  DayFromYear(year) + MonthStart(month % 12, LeapDays(year)) + date - 1

\* MakeDay: a month outside 0..11 carries into the year, a date past the end
\* of the month into the following months
MakeDay(year, month, date) ==
  LET ym == year + (month \div 12)
      mn == month % 12
  IN DayFromYear(ym) + MonthStart(mn, LeapDays(ym)) + date - 1

MakeTime(hour, min, sec, ms) == ((hour * 60 + min) * 60 + sec) * 1000 + ms

MakeDate(day, time) == [day |-> day + (time \div msPerDay), ms |-> time % msPerDay]

\* Date.UTC(year, month, date, hours, minutes, seconds)
Date_UTC(year, month, date, hours, minutes, seconds) ==
  MakeDate(MakeDay(year, month, date), MakeTime(hours, minutes, seconds, 0))

getUTCFullYear(t) == YearFromDay(t.day)
getUTCMonth(t) == MonthFromDay(t.day)
getUTCDate(t) == DateFromDay(t.day)

\* LocalTime(t) and UTC(t), in a zone tza minutes east of Greenwich
LocalTime(t, tza) == MakeDate(t.day, t.ms + tza * msPerMinute)
UTCTime(t, tza) == MakeDate(t.day, t.ms - tza * msPerMinute)

getFullYear(t, tza) == YearFromDay(LocalTime(t, tza).day)
getMonth(t, tza) == MonthFromDay(LocalTime(t, tza).day)
getDate(t, tza) == DateFromDay(LocalTime(t, tza).day)

\* setMonth(month) of a Date whose time value is t: the time value after it
setMonth(t, month, tza) ==
  LET local == LocalTime(t, tza)
  IN UTCTime(MakeDate(MakeDay(YearFromDay(local.day), month, DateFromDay(local.day)),
                      local.ms), tza)

\* a number in width decimal digits, padded with zeros
RECURSIVE Pad(_, _)
Pad(n, width) ==
  IF width = 0 THEN <<>> ELSE Pad(n \div 10, width - 1) \o <<48 + (n % 10)>>

\* the text of a date and a time of day: YYYY-MM-DDTHH:mm:ss.sssZ
ISOText(year, month, date, time) ==
  Pad(year, 4) \o <<45>> \o Pad(month + 1, 2) \o <<45>> \o Pad(date, 2) \o <<84>>
    \o Pad(time \div 3600000, 2) \o <<58>> \o Pad((time \div 60000) % 60, 2) \o <<58>>
    \o Pad((time \div 1000) % 60, 2) \o <<46>> \o Pad(time % 1000, 3) \o <<90>>

\* Date.prototype.toISOString
toISOString(t) ==
  ISOText(getUTCFullYear(t), getUTCMonth(t), getUTCDate(t), t.ms)

\* the digits of text from position a to position b, as a number
Field(text, a, b) == DigitsValue(SubSeq(text, a, b), 10)

\* new Date(text) for the two date-time forms the app stores: with Z the
\* fields are UTC; without an offset they are local time.  The seconds and
\* the milliseconds are read when the text has them.
Date_parse(text, tza) ==
  LET fields == MakeDate(MakeDay(Field(text, 1, 4), Field(text, 6, 7) - 1,
                                 Field(text, 9, 10)),
                         MakeTime(Field(text, 12, 13), Field(text, 15, 16),
                                  IF Len(text) >= 19 THEN Field(text, 18, 19) ELSE 0,
                                  IF Len(text) >= 23 THEN Field(text, 21, 23) ELSE 0))
  IN IF text[Len(text)] = 90 THEN fields ELSE UTCTime(fields, tza)

\* t before u
TimeLess(t, u) == t.day < u.day \/ (t.day = u.day /\ t.ms < u.ms)

\* monthBounds, as it is written: on a Date, giving two date texts
monthBoundsISO(d) ==
  [startISO |-> toISOString(Date_UTC(getUTCFullYear(d), getUTCMonth(d), 1, 0, 0, 0)),
   endISO |-> toISOString(Date_UTC(getUTCFullYear(d), getUTCMonth(d) + 1, 1, 0, 0, 0))]

(***************************************************************************)
(* State                                                                   *)
(***************************************************************************)
VARIABLES
  db,        \* the database file and its connection
  variant,   \* which useExpensesStore the build has: "reload" or "aggregate"
  driver,    \* which database module the build has: "async" (openDatabaseSync,
             \* db.execAsync) or "websql" (openDatabase, db.transaction)
  store,     \* the zustand state: categories, expenses and the monthly totals
  now,       \* the clock, new Date(); a session is short next to a month
  last,      \* the last call: its name, the error it raised, the rows it added
             \* (initializeDatabase), removed by cascade (deleteCategory),
             \* matched (updateExpense) or removed (deleteExpense)
  result,    \* what the last call returned, if it was a query, and its window
  cal,       \* the calendar side of the app: the wall clock, the time zone, the
             \* date text of an expense and what was computed from them
  tasks      \* the calls in flight: each with the step it has reached and what
             \* it has read

vars == <<db, variant, driver, store, now, last, result, cal, tasks>>

\* isLoading is a field of the aggregate store only; the reload store never
\* sets it
EmptyStore ==
  [categories |-> <<>>, expenses |-> <<>>,
   thisMonthTotals |-> <<>>, lastMonthTotals |-> <<>>, isLoading |-> FALSE]

\* after: the call that came before, kept for initializeDatabase only
Call(op, err, n) == [op |-> op, err |-> err, n |-> n, after |-> "-"]

NoResult == [fromISO |-> 0, toISO |-> 0, rows |-> <<>>]

\* the calendar is modelled apart, in the specifications of the dates
NoCalendar == [op |-> "-"]

\* no call in flight: calls are the calls in flight, in the order they were
\* made; effects counts the runs of App's effect; ready tells that one
\* initializeDatabase() has returned without an error
NoTasks == [calls |-> <<>>, effects |-> 0, ready |-> FALSE]

\* the reload store calls runAsync(sql, params) and getAsync(sql, params) of the
\* async module; the aggregate store calls ExpenseService, written for both
Drivers(v) == IF v = "reload" THEN {"async"} ELSE {"async", "websql"}

Init ==
  /\ db = EmptyDB
  /\ variant \in {"reload", "aggregate"}
  /\ driver \in Drivers(variant)
  /\ store = EmptyStore
  /\ now \in MonthLen..(MonthLen + MaxClock)
  /\ last = Call("start", "none", 0)
  /\ result = NoResult
  /\ cal = NoCalendar
  /\ tasks = NoTasks

(***************************************************************************)
(* Schema & connection manager                                             *)
(***************************************************************************)
\* the seed insert that the engine cannot execute (disk full, corruption);
\* NoFault: every insert executes
NoFault == 0
SeedFaults == 0..Len(DEFAULT_CATEGORIES)

\* PRAGMA foreign_keys = ON.  db.execAsync runs it on the connection.  The
\* WebSQL runAsync runs it inside db.transaction, and SQLite ignores the
\* pragma inside a transaction: enforcement stays off.
ForeignKeysOn(drv) == drv = "async"

\* for (const c of defaults) await db.runAsync("INSERT INTO categories ...")
RECURSIVE SeedFrom(_, _, _)
SeedFrom(d, i, failAt) ==
  IF i > Len(DEFAULT_CATEGORIES) THEN [db |-> d, err |-> "none", id |-> 0]
  ELSE LET r == IF i = failAt THEN Failed(d, "StorageUnavailable")
                ELSE InsertCategory(d, DEFAULT_CATEGORIES[i].name,
                                    DEFAULT_CATEGORIES[i].color)
       IN IF r.err # "none" THEN r ELSE SeedFrom(r.db, i + 1, failAt)

\* db.withTransactionAsync rolls back when the task throws.  runInTransaction
\* rejects when the runner throws, but the error callback of runTxAsync has
\* returned false: the transaction goes on and commits the inserts made.
SeedDefaults(d, drv, failAt) ==
  LET r == SeedFrom(d, 1, failAt)
  IN IF r.err = "none" \/ drv = "websql"
       THEN [r EXCEPT !.db.seeds = IF r.db.categories # {} THEN @ + 1 ELSE @]
       ELSE Failed(d, r.err)

\* the count left unchecked
NeedsSeed_Always(d) == TRUE

\* if (result?.count === 0)
NeedsSeed(d) == Cardinality(d.categories) = 0

InitializedDB(d, drv, failAt) ==
  LET opened == [d EXCEPT !.foreignKeys = @ \/ ForeignKeysOn(drv), !.schema = TRUE]
  IN IF NeedsSeed(opened) THEN SeedDefaults(opened, drv, failAt)
     ELSE [db |-> opened, err |-> "none", id |-> 0]

\* the bound stops a seed that would pass the last rowid of the model
SeedRoom(d, r) == r.db.seqCategories <= MaxRowId

initializeDatabase(failAt) ==
  LET r == InitializedDB(db, driver, failAt)
  IN /\ SeedRoom(db, r)
     /\ db' = r.db
     /\ last' = [Call("initializeDatabase", r.err,
                       Cardinality(r.db.categories) - Cardinality(db.categories))
                    EXCEPT !.after = last.op]
     /\ result' = NoResult
     /\ UNCHANGED <<cal, tasks, variant, driver, store, now>>

(***************************************************************************)
(* Repository functions of ExpenseService.ts                               *)
(***************************************************************************)
\* the bounds stop successful inserts only
CategoryRoom(d, r) == r.err = "none" => d.seqCategories < MaxCategoryId
ExpenseRoom(d, r) == r.err = "none" => d.seqExpenses < MaxExpenseAdds

\* ExpenseService.addCategory: the row it inserts and the object it returns
Service_addCategory(d, input) ==
  LET r == InsertCategory(d, trim(input.name), input.color)
  IN [db |-> r.db, err |-> r.err,
      created |-> [id |-> r.id, name |-> input.name, color |-> input.color]]

\* the notes left out of the bound values
Service_addExpense_NoNotes(d, input) ==
  LET r == InsertExpense(d, input.amount, input.categoryId, input.date, Null)
  IN [db |-> r.db, err |-> r.err,
      created |-> [id |-> r.id, amount |-> input.amount,
                   categoryId |-> input.categoryId, date |-> input.date,
                   notes |-> input.notes]]

\* ExpenseService.addExpense: notes ?? null is stored, { id, ...input } is returned
Service_addExpense(d, input) ==
  LET r == InsertExpense(d, input.amount, input.categoryId, input.date,
                         IF input.notes = Undefined THEN Null ELSE input.notes)
  IN [db |-> r.db, err |-> r.err,
      created |-> [id |-> r.id, amount |-> input.amount,
                   categoryId |-> input.categoryId, date |-> input.date,
                   notes |-> input.notes]]

\* The functions ExpenseService.ts exports beside the service object bind
\* runAsync(sql, params) of the async module: they are part of the async
\* build only, and so is the Edit Expense screen, which imports them.

\* export const addCategory = async (name, color)
addCategory(name, color) ==
  /\ driver = "async"
  /\ LET r == InsertCategory(db, name, color)
     IN /\ CategoryRoom(db, r)
        /\ db' = r.db
        /\ last' = Call("addCategory", r.err, 0)
  /\ result' = NoResult
  /\ UNCHANGED <<cal, tasks, variant, driver, store, now>>

\* export const deleteCategory = async (id)
deleteCategory(id) ==
  /\ driver = "async"
  /\ LET r == DeleteCategoryRow(db, id)
     IN /\ db' = r.db
        /\ last' = Call("deleteCategory", r.err,
                        Cardinality(db.expenses) - Cardinality(r.db.expenses))
  /\ result' = NoResult
  /\ UNCHANGED <<cal, tasks, variant, driver, store, now>>

(***************************************************************************)
(* useExpensesStore, reload variant                                        *)
(***************************************************************************)
\* the step of loadInitialData that the engine cannot execute, if any
NoLoadFault == "none"
LoadFaults == {NoLoadFault, "categories", "expenses", "aggregates"}

\* loadInitialData: the states the store can be left in.  A query that throws
\* is caught: set({ categories: [], expenses: [] }), and nothing is rethrown.
Reload_loaded(d, st, fault) ==
  IF ~d.schema \/ fault # NoLoadFault
    THEN {[st EXCEPT !.categories = <<>>, !.expenses = <<>>]}
    ELSE {[st EXCEPT !.categories = OrderByNameAsc(d.categories), !.expenses = es] :
            es \in OrderByDateDesc(d.expenses)}

Reload_loadInitialData(fault) ==
  /\ variant = "reload"
  /\ fault # "aggregates"
  /\ store' \in Reload_loaded(db, store, fault)
  /\ last' = Call("loadInitialData", "none", 0)
  /\ result' = NoResult
  /\ UNCHANGED <<cal, tasks, db, variant, driver, now>>

\* the error dropped after it is logged
Reload_catch_Swallowed(err) == "none"

\* catch (err) { console.error(...); throw err; }
Reload_catch(err) == err

Reload_addCategory(name, color) ==
  /\ variant = "reload"
  /\ LET r == InsertCategory(db, name, color)
     IN /\ CategoryRoom(db, r)
        /\ db' = r.db
        /\ IF r.err = "none" THEN store' \in Reload_loaded(r.db, store, NoLoadFault)
                             ELSE store' = store
        /\ last' = Call("store.addCategory", Reload_catch(r.err), 0)
  /\ result' = NoResult
  /\ UNCHANGED <<cal, tasks, variant, driver, now>>

Reload_deleteCategory(id) ==
  /\ variant = "reload"
  /\ LET r == DeleteCategoryRow(db, id)
     IN /\ db' = r.db
        /\ IF r.err = "none" THEN store' \in Reload_loaded(r.db, store, NoLoadFault)
                             ELSE store' = store
        /\ last' = Call("store.deleteCategory", Reload_catch(r.err),
                        Cardinality(db.expenses) - Cardinality(r.db.expenses))
  /\ result' = NoResult
  /\ UNCHANGED <<cal, tasks, variant, driver, now>>

\* [expense.amount, expense.category_id, expense.date, expense.notes || ""]
Reload_addExpense(expense) ==
  /\ variant = "reload"
  /\ LET r == InsertExpense(db, expense.amount, expense.categoryId, expense.date,
                            IF expense.notes \in {Undefined, Null, ""} THEN ""
                            ELSE expense.notes)
     IN /\ ExpenseRoom(db, r)
        /\ db' = r.db
        /\ IF r.err = "none" THEN store' \in Reload_loaded(r.db, store, NoLoadFault)
                             ELSE store' = store
        /\ last' = Call("store.addExpense", Reload_catch(r.err), 0)
  /\ result' = NoResult
  /\ UNCHANGED <<cal, tasks, variant, driver, now>>

(***************************************************************************)
(* useExpensesStore, aggregate variant                                     *)
(***************************************************************************)
\* new Date(Date.UTC(year, month - 1, 15)): the middle of the month before now's
lastMonthAnchor(t) == ((t \div MonthLen) - 1) * MonthLen + (MonthLen \div 2)

\* refreshAggregates
Refreshed(d, st, t) ==
  LET this == monthBounds(t)
      prev == monthBounds(lastMonthAnchor(t))
  IN [st EXCEPT
        !.thisMonthTotals = getCategoryTotals(d, this.startISO, this.endISO),
        !.lastMonthTotals = getCategoryTotals(d, prev.startISO, prev.endISO)]

\* loadInitialData: try { ... } finally { set({ isLoading: false }) }, without a
\* catch.  When one of the two reads throws nothing is set; when
\* refreshAggregates throws the two lists are already set.
Aggregate_loaded(d, st, t, fault) ==
  IF ~d.schema THEN [store |-> st, err |-> "NoSuchTable"]
  ELSE IF fault \in {"categories", "expenses"}
    THEN [store |-> st, err |-> "StorageUnavailable"]
  ELSE LET read == [st EXCEPT !.categories = getCategories(d),
                              !.expenses = getAllExpenses(d)]
       IN IF fault = "aggregates"
            THEN [store |-> read, err |-> "StorageUnavailable"]
            ELSE [store |-> Refreshed(d, read, t), err |-> "none"]

Aggregate_loadInitialData(fault) ==
  /\ variant = "aggregate"
  /\ LET r == Aggregate_loaded(db, store, now, fault)
     IN /\ store' = r.store
        /\ last' = Call("loadInitialData", r.err, 0)
  /\ result' = NoResult
  /\ UNCHANGED <<cal, tasks, db, variant, driver, now>>

Aggregate_refreshAggregates ==
  /\ variant = "aggregate"
  /\ IF db.schema
       THEN /\ store' = Refreshed(db, store, now)
            /\ last' = Call("refreshAggregates", "none", 0)
       ELSE /\ store' = store
            /\ last' = Call("refreshAggregates", "NoSuchTable", 0)
  /\ result' = NoResult
  /\ UNCHANGED <<cal, tasks, db, variant, driver, now>>

\* set((s) => ({ expenses: [created, ...s.expenses] })); await refreshAggregates()
Aggregate_addedExpense(d, st, created, t) ==
  Refreshed(d, [st EXCEPT !.expenses = <<created>> \o @], t)

Aggregate_addExpense(input) ==
  /\ variant = "aggregate"
  /\ LET r == Service_addExpense(db, input)
     IN /\ ExpenseRoom(db, r)
        /\ db' = r.db
        /\ store' = IF r.err = "none"
                      THEN Aggregate_addedExpense(r.db, store, r.created, now)
                      ELSE store
        /\ last' = Call("store.addExpense", r.err, 0)
  /\ result' = NoResult
  /\ UNCHANGED <<cal, tasks, variant, driver, now>>

\* set((s) => ({ categories: [...s.categories, created] }))
Aggregate_addedCategory(d, st, created, t) ==
  [st EXCEPT !.categories = Append(@, created)]

Aggregate_addCategory(input) ==
  /\ variant = "aggregate"
  /\ LET r == Service_addCategory(db, input)
     IN /\ CategoryRoom(db, r)
        /\ db' = r.db
        /\ store' = IF r.err = "none"
                      THEN Aggregate_addedCategory(r.db, store, r.created, now)
                      ELSE store
        /\ last' = Call("store.addCategory", r.err, 0)
  /\ result' = NoResult
  /\ UNCHANGED <<cal, tasks, variant, driver, now>>

(***************************************************************************)
(* EditExpenseScreen                                                       *)
(***************************************************************************)
\* await loadInitialData(), of the store the build has
Loaded(d, st, t) ==
  IF variant = "reload" THEN Reload_loaded(d, st, NoLoadFault)
  ELSE {Aggregate_loaded(d, st, t, NoLoadFault).store}

Elems(s) == {s[i] : i \in DOMAIN s}

\* handleSave: updateExpense(expense.id, {...}) then loadInitialData()
EditExpense_handleSave(expense, amount, categoryId, date, notes) ==
  /\ driver = "async"
  /\ LET r == UpdateExpenseRow(db, expense.id, amount, categoryId, date, notes)
     IN /\ db' = r.db
        /\ IF r.err = "none" THEN store' \in Loaded(r.db, store, now)
                             ELSE store' = store
        /\ last' = Call("handleSave", r.err, 0)
  /\ result' = NoResult
  /\ UNCHANGED <<cal, tasks, variant, driver, now>>

\* handleDelete: deleteExpense(expense.id) then loadInitialData()
EditExpense_handleDelete(expense) ==
  /\ driver = "async"
  /\ LET r == DeleteExpenseRow(db, expense.id)
     IN /\ db' = r.db
        /\ IF r.err = "none" THEN store' \in Loaded(r.db, store, now)
                             ELSE store' = store
        /\ last' = Call("handleDelete", r.err, 0)
  /\ result' = NoResult
  /\ UNCHANGED <<cal, tasks, variant, driver, now>>

(***************************************************************************)
(* The forms: what the screens pass to the store from the text typed       *)
(***************************************************************************)
\* the text of the amount field: "1", "-1", "" and "0x1"
AmountTexts == {<<49>>, <<45, 49>>, <<>>, <<48, 120, 49>>}

\* the text of the notes field of the Add Expense form
NotesFieldTexts == {<<SP>>}

\* const amt = 12.99, in whole units
DetectedAmount == 13

QuickAddNotes == "Quick add (simulated payment)"

\* categories[0]?.id of an empty list: undefined, which !!categoryId reads as
\* it reads 0
NoCategory == 0

\* useState(categories[0]?.id) and the items of the Picker
FormCategoryIds ==
  IF store.categories = <<>> THEN {NoCategory}
  ELSE {c.id : c \in Elems(store.categories)} \cap CategoryIdInputs

\* notes.trim() || undefined
FormNotes(notes) == IF trim(notes) = <<>> THEN Undefined ELSE trim(notes)

\* AddExpenseScreen.tsx: !!categoryId && !!amount && !isNaN(Number(amount)) &&
\* Number(amount) > 0
canSave(categoryId, amount) ==
  /\ categoryId # NoCategory
  /\ amount # <<>>
  /\ ~isNaN(Number(amount))
  /\ Number(amount) > 0

\* AddExpenseScreen.tsx handleSave, on the aggregate store
AddExpenseScreen_handleSave(amount, categoryId, date, notes) ==
  /\ canSave(categoryId, amount)
  /\ Aggregate_addExpense([amount |-> Number(amount), categoryId |-> categoryId,
                            date |-> date, notes |-> FormNotes(notes)])

\* the other Add Expense screen: !!categoryId && !isNaN(Number(amount)) &&
\* Number(amount) > 0, on the button (disabled={!canSave})
Reload_canSave(categoryId, amount) ==
  /\ categoryId # NoCategory
  /\ ~isNaN(Number(amount))
  /\ Number(amount) > 0

\* its handleSave, on the reload store: amount: parseFloat(amount)
Reload_AddExpenseScreen_handleSave(amount, categoryId, date, notes) ==
  /\ Reload_canSave(categoryId, amount)
  /\ Reload_addExpense([amount |-> parseFloat(amount), categoryId |-> categoryId,
                         date |-> date, notes |-> FormNotes(notes)])

\* DashboardScreen handleSelectCategory, the quick add, of either dashboard
Dashboard_handleSelectCategory(cat) ==
  LET input == [amount |-> DetectedAmount, categoryId |-> cat.id, date |-> now,
                notes |-> QuickAddNotes]
  IN /\ cat.id # 0
     /\ \/ Aggregate_addExpense(input)
        \/ Reload_addExpense(input)

\* EditExpenseScreen handleSave from the text of the form: amount:
\* parseFloat(amount)
EditExpenseForm_handleSave(expense, amount, categoryId, date, notes) ==
  EditExpense_handleSave(expense, parseFloat(amount), categoryId, date, notes)

(***************************************************************************)
(* Specification of the app: the store, the screens and the exported       *)
(* functions                                                               *)
(***************************************************************************)
CategoryInputs == [name : NameInputs, color : ColorInputs]

ExpenseInputs ==
  [amount : AmountInputs, categoryId : CategoryIdInputs, date : DateInputs,
   notes : NotesInputs]

\* the text of the notes field of the Edit Expense form
NotesTexts == {""}

\* the categories the Edit Expense form offers, and the one it opened with
EditCategoryIds(expense) ==
  ({c.id : c \in Elems(store.categories)} \cap CategoryIdInputs)
    \cup {expense.categoryId}

Next ==
  \/ initializeDatabase(NoFault)
  \/ \E name \in NameInputs, color \in ColorInputs : addCategory(name, color)
  \/ \E id \in CategoryIdInputs : deleteCategory(id)
  \/ \E fault \in LoadFaults : Reload_loadInitialData(fault)
  \/ \E name \in NameInputs, color \in ColorInputs : Reload_addCategory(name, color)
  \/ \E id \in CategoryIdInputs : Reload_deleteCategory(id)
  \/ \E expense \in ExpenseInputs : Reload_addExpense(expense)
  \/ \E fault \in LoadFaults : Aggregate_loadInitialData(fault)
  \/ Aggregate_refreshAggregates
  \/ \E input \in ExpenseInputs : Aggregate_addExpense(input)
  \/ \E input \in CategoryInputs : Aggregate_addCategory(input)
  \/ \E expense \in Elems(store.expenses), amount \in AmountInputs, date \in DateInputs,
        notes \in NotesTexts :
       \E categoryId \in EditCategoryIds(expense) :
         EditExpense_handleSave(expense, amount, categoryId, date, notes)
  \/ \E expense \in Elems(store.expenses) : EditExpense_handleDelete(expense)

Spec == Init /\ [][Next]_vars

(***************************************************************************)
(* Specification of the repository: ExpenseService called directly, and    *)
(* its queries over every window                                           *)
(***************************************************************************)
\* ExpenseService.addExpense
Service_addExpenseCall(input) ==
  /\ LET r == Service_addExpense(db, input)
     IN /\ ExpenseRoom(db, r)
        /\ db' = r.db
        /\ last' = Call("addExpense", r.err, 0)
  /\ result' = NoResult
  /\ UNCHANGED <<cal, tasks, variant, driver, store, now>>

\* export const updateExpense = async (id, updatedData)
updateExpense(id, updatedData) ==
  /\ driver = "async"
  /\ LET r == UpdateExpenseRow(db, id, updatedData.amount, updatedData.categoryId,
                               updatedData.date, updatedData.notes)
     IN /\ db' = r.db
        /\ last' = Call("updateExpense", r.err,
                        Cardinality({e \in db.expenses : e.id = id}))
  /\ result' = NoResult
  /\ UNCHANGED <<cal, tasks, variant, driver, store, now>>

\* export const deleteExpense = async (id)
deleteExpense(id) ==
  /\ driver = "async"
  /\ LET r == DeleteExpenseRow(db, id)
     IN /\ db' = r.db
        /\ last' = Call("deleteExpense", r.err,
                        Cardinality(db.expenses) - Cardinality(r.db.expenses))
  /\ result' = NoResult
  /\ UNCHANGED <<cal, tasks, variant, driver, store, now>>

\* ExpenseService.getAllExpenses()
Query_getAllExpenses ==
  /\ db.schema
  /\ result' = [NoResult EXCEPT !.rows = getAllExpenses(db)]
  /\ last' = Call("getAllExpenses", "none", 0)
  /\ UNCHANGED <<cal, tasks, db, variant, driver, store, now>>

\* ExpenseService.getExpensesInDateRange(fromISO, toISO)
Query_getExpensesInDateRange(fromISO, toISO) ==
  /\ db.schema
  /\ result' = [fromISO |-> fromISO, toISO |-> toISO,
                rows |-> getExpensesInDateRange(db, fromISO, toISO)]
  /\ last' = Call("getExpensesInDateRange", "none", 0)
  /\ UNCHANGED <<cal, tasks, db, variant, driver, store, now>>

\* ExpenseService.getCategoryTotals(fromISO, toISO)
Query_getCategoryTotals(fromISO, toISO) ==
  /\ db.schema
  /\ result' = [fromISO |-> fromISO, toISO |-> toISO,
                rows |-> getCategoryTotals(db, fromISO, toISO)]
  /\ last' = Call("getCategoryTotals", "none", 0)
  /\ UNCHANGED <<cal, tasks, db, variant, driver, store, now>>

RepoExpenseInputs ==
  [amount : RepoAmountInputs, categoryId : RepoCategoryIdInputs, date : DateInputs,
   notes : NotesInputs]

RepoUpdateInputs ==
  [amount : RepoUpdateAmountInputs, categoryId : RepoCategoryIdInputs, date : DateInputs,
   notes : NotesTexts]

ExpenseIdInputs == 1..MaxExpenseAdds

NextRepo ==
  \/ initializeDatabase(NoFault)
  \/ \E id \in RepoCategoryIdInputs : deleteCategory(id)
  \/ \E input \in RepoExpenseInputs : Service_addExpenseCall(input)
  \/ \E id \in ExpenseIdInputs, updatedData \in RepoUpdateInputs :
       updateExpense(id, updatedData)
  \/ \E id \in ExpenseIdInputs : deleteExpense(id)
  \/ Query_getAllExpenses
  \/ \E fromISO \in Dates, toISO \in Dates :
       Query_getExpensesInDateRange(fromISO, toISO)
  \/ \E fromISO \in Dates, toISO \in Dates : Query_getCategoryTotals(fromISO, toISO)

\* the writes of the repository alone
NextWrite ==
  \/ initializeDatabase(NoFault)
  \/ \E id \in RepoCategoryIdInputs : deleteCategory(id)
  \/ \E input \in RepoExpenseInputs : Service_addExpenseCall(input)
  \/ \E id \in ExpenseIdInputs, updatedData \in RepoUpdateInputs :
       updateExpense(id, updatedData)
  \/ \E id \in ExpenseIdInputs : deleteExpense(id)

\* ExpenseService is the repository of the aggregate store
InitRepo == Init /\ variant = "aggregate" /\ driver = "async"

SpecRepo == InitRepo /\ [][NextRepo]_vars

SpecWrite == InitRepo /\ [][NextWrite]_vars

(***************************************************************************)
(* Specification of the add paths of an expense: addExpense of the two     *)
(* stores, with and without notes                                          *)
(***************************************************************************)
\* notes: notes.trim() || undefined, of the Add Expense form
AddNotesInputs == {Undefined, "lunch"}

AddExpenseInputs ==
  [amount : AmountInputs, categoryId : CategoryIdInputs, date : DateInputs,
   notes : AddNotesInputs]

NextAdd ==
  \/ initializeDatabase(NoFault)
  \/ \E id \in CategoryIdInputs : deleteCategory(id)
  \/ \E expense \in AddExpenseInputs : Reload_addExpense(expense)
  \/ \E input \in AddExpenseInputs : Aggregate_addExpense(input)

SpecAdd == Init /\ [][NextAdd]_vars

(***************************************************************************)
(* Specification of the forms: the expenses the screens write              *)
(***************************************************************************)
NextForms ==
  \/ initializeDatabase(NoFault)
  \/ Reload_loadInitialData(NoLoadFault)
  \/ Aggregate_loadInitialData(NoLoadFault)
  \/ \E amount \in AmountTexts, date \in DateInputs, notes \in NotesFieldTexts :
       \E categoryId \in FormCategoryIds :
         AddExpenseScreen_handleSave(amount, categoryId, date, notes)
  \/ \E amount \in AmountTexts, date \in DateInputs, notes \in NotesFieldTexts :
       \E categoryId \in FormCategoryIds :
         Reload_AddExpenseScreen_handleSave(amount, categoryId, date, notes)
  \/ \E cat \in Elems(store.categories) : Dashboard_handleSelectCategory(cat)
  \/ \E expense \in Elems(store.expenses), amount \in AmountTexts, date \in DateInputs,
        notes \in NotesTexts :
       \E categoryId \in EditCategoryIds(expense) :
         EditExpenseForm_handleSave(expense, amount, categoryId, date, notes)

SpecForms == Init /\ [][NextForms]_vars

(***************************************************************************)
(* Specification of the month windows: monthBounds and the two windows of  *)
(* refreshAggregates, for every reading of the wall clock                  *)
(***************************************************************************)
\* 2023 and the leap year 2024
FirstYear == 2023
Years == FirstYear..(FirstYear + MaxYears - 1)

\* the first and the last millisecond of a day
ClockTimes == {0, msPerDay - 1}

DaysInMonth(year, month) ==
  MonthStart(month + 1, LeapDays(year)) - MonthStart(month, LeapDays(year))

\* what a wall clock set to UTC can read: every day of every month
WallClocks ==
  UNION { [year : {y}, month : {m}, date : 1..DaysInMonth(y, m), time : ClockTimes] :
          y \in Years, m \in 0..11 }

\* new Date(): the time value when the wall clock reads w
Clock(w) == MakeDate(MakeDay(w.year, w.month, w.date), w.time)

CalendarAt(w) == [op |-> "clock", wall |-> w, now |-> Clock(w), out |-> <<>>]

\* the anchor on the date of now
lastMonth_SameDate(d) ==
  Date_UTC(getUTCFullYear(d), getUTCMonth(d) - 1, getUTCDate(d), 0, 0, 0)

\* new Date(Date.UTC(now.getUTCFullYear(), now.getUTCMonth() - 1, 15))
lastMonth(d) == Date_UTC(getUTCFullYear(d), getUTCMonth(d) - 1, 15, 0, 0, 0)

\* the two windows refreshAggregates asks the totals for
refreshWindows(d) ==
  [thisStart |-> monthBoundsISO(d).startISO, thisEnd |-> monthBoundsISO(d).endISO,
   lastStart |-> monthBoundsISO(lastMonth(d)).startISO,
   lastEnd |-> monthBoundsISO(lastMonth(d)).endISO]

Calendar_monthBounds ==
  /\ cal.op = "clock"
  /\ cal' = [cal EXCEPT !.op = "monthBounds", !.out = monthBoundsISO(cal.now)]
  /\ UNCHANGED <<db, variant, driver, store, now, last, result, tasks>>

Calendar_refreshWindows ==
  /\ cal.op = "clock"
  /\ cal' = [cal EXCEPT !.op = "refreshAggregates", !.out = refreshWindows(cal.now)]
  /\ UNCHANGED <<db, variant, driver, store, now, last, result, tasks>>

NextCalendar ==
  \/ Calendar_monthBounds
  \/ Calendar_refreshWindows

InitCalendar ==
  /\ db = EmptyDB
  /\ variant = "aggregate"
  /\ driver = "async"
  /\ store = EmptyStore
  /\ now = MonthLen
  /\ last = Call("start", "none", 0)
  /\ result = NoResult
  /\ cal \in {CalendarAt(w) : w \in WallClocks}
  /\ tasks = NoTasks

SpecCalendar == InitCalendar /\ [][NextCalendar]_vars

(***************************************************************************)
(* Specification of the dates: the date text each screen writes for an     *)
(* expense, and the month filter of the dashboard over it                  *)
(***************************************************************************)
\* minutes east of Greenwich of the zone the device is in
TimeZones == {0, 120}

\* what the wall clock of the device reads, in its zone: every day, at noon
DeviceClocks ==
  UNION { [year : {y}, month : {m}, date : 1..DaysInMonth(y, m),
           time : {msPerDay \div 2}] : y \in Years, m \in 0..11 }

\* the month k months after the month of w
MonthAfter(w, k) ==
  [year |-> (w.year * 12 + w.month + k) \div 12,
   month |-> (w.year * 12 + w.month + k) % 12]

\* what the date picker of Add Expense is set to when the clock reads w, in
\* the zone of the device: the first and the last instant of the month of w
\* and of the month before it
PickerDates(w) ==
  UNION { LET mo == MonthAfter(w, k)
          IN { [year |-> mo.year, month |-> mo.month, date |-> 1, time |-> 30],
               [year |-> mo.year, month |-> mo.month,
                date |-> DaysInMonth(mo.year, mo.month), time |-> msPerDay - 1] } :
          k \in {-1, 0} }

NoDate == <<>>

\* date: the date text of the one expense; out: the last thing computed
DatesAt(w, tza) ==
  [op |-> "clock", wall |-> w, tza |-> tza, now |-> UTCTime(Clock(w), tza),
   date |-> NoDate, out |-> <<>>]

\* text.split("T"): the part before the first T and the part after it
RECURSIVE UpTo(_, _)
UpTo(text, c) ==
  IF text = <<>> \/ Head(text) = c THEN <<>>
  ELSE <<Head(text)>> \o UpTo(Tail(text), c)

After(text, c) == SubSeq(text, Len(UpTo(text, c)) + 2, Len(text))

\* text.substring(0, n)
substring(text, n) == SubSeq(text, 1, IF n < Len(text) THEN n ELSE Len(text))

\* EditExpenseScreen: date = expense.date.split("T")[0], time =
\* expense.date.split("T")[1]?.substring(0, 5) ?? "12:00", and handleSave
\* writes `${date}T${time}:00`, when the two fields are left as they open
updatedDate(text) ==
  LET date == UpTo(text, 84)
      time == IF Len(date) = Len(text) THEN <<49, 50, 58, 48, 48>>
              ELSE substring(UpTo(After(text, 84), 84), 5)
  IN date \o <<84>> \o time \o <<58, 48, 48>>

\* AddExpenseScreen handleSave: date: date.toISOString(), date the Date of
\* the picker
Dates_addExpense(picked) ==
  /\ cal.date = NoDate
  /\ cal' = [cal EXCEPT !.op = "addExpense",
                         !.date = toISOString(UTCTime(Clock(picked), cal.tza))]
  /\ UNCHANGED <<db, variant, driver, store, now, last, result, tasks>>

\* DashboardScreen handleSelectCategory: date: new Date().toISOString()
Dates_quickAdd ==
  /\ cal.date = NoDate
  /\ cal' = [cal EXCEPT !.op = "quickAdd", !.date = toISOString(cal.now)]
  /\ UNCHANGED <<db, variant, driver, store, now, last, result, tasks>>

\* EditExpenseScreen handleSave: date: updatedDate
Dates_editExpense ==
  /\ cal.date # NoDate
  /\ cal' = [cal EXCEPT !.op = "editExpense", !.date = updatedDate(cal.date)]
  /\ UNCHANGED <<db, variant, driver, store, now, last, result, tasks>>

\* DashboardScreen: d.getMonth() === now.getMonth() && d.getFullYear() ===
\* now.getFullYear()
thisMonthExpenses(text, t, tza) ==
  LET d == Date_parse(text, tza)
  IN getMonth(d, tza) = getMonth(t, tza) /\ getFullYear(d, tza) = getFullYear(t, tza)

\* DashboardScreen: lastMonth = new Date(); lastMonth.setMonth(now.getMonth() - 1)
lastMonthExpenses(text, t, tza) ==
  LET d == Date_parse(text, tza)
      lastMonthDate == setMonth(t, getMonth(t, tza) - 1, tza)
  IN /\ getMonth(d, tza) = getMonth(lastMonthDate, tza)
     /\ getFullYear(d, tza) = getFullYear(lastMonthDate, tza)

\* the dashboard renders: the two filters over the cached expense
Dates_dashboard ==
  /\ cal.date # NoDate
  /\ cal.op # "dashboard"
  /\ cal' = [cal EXCEPT !.op = "dashboard",
                         !.out = [this |-> thisMonthExpenses(cal.date, cal.now, cal.tza),
                                  last |-> lastMonthExpenses(cal.date, cal.now, cal.tza)]]
  /\ UNCHANGED <<db, variant, driver, store, now, last, result, tasks>>

NextDates ==
  \/ \E picked \in PickerDates(cal.wall) : Dates_addExpense(picked)
  \/ Dates_quickAdd
  \/ Dates_editExpense
  \/ Dates_dashboard

InitDates ==
  /\ db = EmptyDB
  /\ variant = "reload"
  /\ driver = "async"
  /\ store = EmptyStore
  /\ now = MonthLen
  /\ last = Call("start", "none", 0)
  /\ result = NoResult
  /\ cal \in {DatesAt(w, tza) : w \in DeviceClocks, tza \in TimeZones}
  /\ tasks = NoTasks

SpecDates == InitDates /\ [][NextDates]_vars

(***************************************************************************)
(* Specification of the schema manager: initializeDatabase with a seed     *)
(* insert that may fail, and the category table emptied between two runs   *)
(***************************************************************************)
RowIdInputs == 1..MaxRowId

\* ExpenseService.getCategories(), of either module
Query_getCategories ==
  /\ db.schema
  /\ result' = [NoResult EXCEPT !.rows = getCategories(db)]
  /\ last' = Call("getCategories", "none", 0)
  /\ UNCHANGED <<cal, tasks, db, variant, driver, store, now>>

\* export const getCategories = async ()
Query_exportedGetCategories ==
  /\ driver = "async"
  /\ db.schema
  /\ result' = [NoResult EXCEPT !.rows = Exported_getCategories(db)]
  /\ last' = Call("export.getCategories", "none", 0)
  /\ UNCHANGED <<cal, tasks, db, variant, driver, store, now>>

NextSeed ==
  \/ \E failAt \in SeedFaults : initializeDatabase(failAt)
  \/ \E name \in NameInputs, color \in ColorInputs : addCategory(name, color)
  \/ \E id \in RowIdInputs : deleteCategory(id)
  \/ Query_getCategories
  \/ Query_exportedGetCategories

InitSeed == Init /\ variant = "aggregate"

SpecSeed == InitSeed /\ [][NextSeed]_vars

(***************************************************************************)
(* Specification of the calls in flight: every await of App's effect, of   *)
(* the aggregate store and of the screens is a step of its own, and the    *)
(* steps of the calls in flight are taken in any order, since nothing in   *)
(* the code orders the completion of two statements sent to the engine     *)
(***************************************************************************)
\* what an awaited read has brought back so far
Pending == [done |-> FALSE, err |-> "none", rows |-> <<>>]
Got(rows) == [done |-> TRUE, err |-> "none", rows |-> rows]
Threw(err) == [done |-> TRUE, err |-> err, rows |-> <<>>]

\* a SELECT sent to the engine
Read(d, rows) == IF d.schema THEN Got(rows) ELSE Threw("NoSuchTable")

\* a name that sorts after the default ones
Zoo == <<90, 111, 111>>
AsyncCategoryInputs == {[name |-> Zoo, color |-> "#111111"]}
AsyncExpenseInputs ==
  {[amount |-> 1, categoryId |-> 1, date |-> 1, notes |-> Undefined]}

Without(calls, i) ==
  SubSeq(calls, 1, i - 1) \o SubSeq(calls, i + 1, Len(calls))

InFlight(i, op, pc) ==
  /\ i \in DOMAIN tasks.calls
  /\ tasks.calls[i].op = op
  /\ tasks.calls[i].pc = pc

HasRoom == Len(tasks.calls) < MaxTasks

\* a call goes on to its next await
Goes(i, call) == tasks' = [tasks EXCEPT !.calls[i] = call]

\* a call returns or throws
Returns(i, op, err) ==
  /\ tasks' = [tasks EXCEPT !.calls = Without(@, i)]
  /\ last' = Call(op, err, 0)

\* loadInitialData up to its first await: set({ isLoading: true }), and the two
\* reads of Promise.all are sent
LoadStarted ==
  [op |-> "loadInitialData", pc |-> "reading", categories |-> Pending,
   expenses |-> Pending, totals |-> Pending]

\* useEffect(() => { (async () => { await initializeDatabase(); ... })(); }, [])
App_useEffect ==
  /\ variant = "aggregate"
  /\ tasks.effects < MaxEffects
  /\ HasRoom
  /\ tasks' = [tasks EXCEPT
                 !.calls = Append(@, [op |-> "initializeDatabase",
                                      pc |-> "schema", err |-> "none"]),
                 !.effects = @ + 1]
  /\ UNCHANGED <<cal, db, variant, driver, store, now, last, result>>

\* PRAGMA foreign_keys = ON and the two CREATE TABLE IF NOT EXISTS
Init_schema(i) ==
  /\ InFlight(i, "initializeDatabase", "schema")
  /\ db' = [db EXCEPT !.schema = TRUE,
                      !.foreignKeys = @ \/ ForeignKeysOn(driver)]
  /\ Goes(i, [tasks.calls[i] EXCEPT !.pc = "count"])
  /\ UNCHANGED <<cal, variant, driver, store, now, last, result>>

\* SELECT COUNT(*) as count FROM categories; and the test of count === 0
Init_count(i) ==
  /\ InFlight(i, "initializeDatabase", "count")
  /\ Goes(i, [tasks.calls[i] EXCEPT
                !.pc = IF NeedsSeed(db) THEN "seed" ELSE "done"])
  /\ UNCHANGED <<cal, db, variant, driver, store, now, last, result>>

\* the transaction that inserts DEFAULT_CATEGORIES, taken as one step: the
\* statements of another call are not let in between its inserts
Init_seed(i) ==
  /\ InFlight(i, "initializeDatabase", "seed")
  /\ LET r == SeedDefaults(db, driver, NoFault)
     IN /\ SeedRoom(db, r)
        /\ db' = r.db
        /\ Goes(i, [tasks.calls[i] EXCEPT !.pc = "done", !.err = r.err])
  /\ UNCHANGED <<cal, variant, driver, store, now, last, result>>

\* initializeDatabase() returns and the effect calls loadInitialData(), or it
\* throws and the effect ends
Init_return(i) ==
  /\ InFlight(i, "initializeDatabase", "done")
  /\ LET err == tasks.calls[i].err
     IN /\ last' = Call("initializeDatabase", err, 0)
        /\ IF err = "none"
             THEN /\ tasks' = [tasks EXCEPT !.calls[i] = LoadStarted,
                                            !.ready = TRUE]
                  /\ store' = [store EXCEPT !.isLoading = TRUE]
             ELSE /\ tasks' = [tasks EXCEPT !.calls = Without(@, i)]
                  /\ store' = store
  /\ UNCHANGED <<cal, db, variant, driver, now, result>>

\* ExpenseService.getCategories() of Promise.all
Load_getCategories(i) ==
  /\ InFlight(i, "loadInitialData", "reading")
  /\ ~tasks.calls[i].categories.done
  /\ Goes(i, [tasks.calls[i] EXCEPT !.categories = Read(db, getCategories(db))])
  /\ UNCHANGED <<cal, db, variant, driver, store, now, last, result>>

\* ExpenseService.getAllExpenses() of Promise.all
Load_getAllExpenses(i) ==
  /\ InFlight(i, "loadInitialData", "reading")
  /\ ~tasks.calls[i].expenses.done
  /\ Goes(i, [tasks.calls[i] EXCEPT !.expenses = Read(db, getAllExpenses(db))])
  /\ UNCHANGED <<cal, db, variant, driver, store, now, last, result>>

\* Promise.all settles: set({ categories, expenses }) and refreshAggregates()
\* is called, or finally { set({ isLoading: false }) } and the error goes on
Load_set(i) ==
  /\ InFlight(i, "loadInitialData", "reading")
  /\ LET call == tasks.calls[i]
     IN /\ call.categories.done
        /\ call.expenses.done
        /\ IF call.categories.err # "none" \/ call.expenses.err # "none"
             THEN /\ store' = [store EXCEPT !.isLoading = FALSE]
                  /\ Returns(i, "loadInitialData",
                             IF call.categories.err # "none"
                               THEN call.categories.err ELSE call.expenses.err)
             ELSE /\ store' = [store EXCEPT
                                 !.categories = call.categories.rows,
                                 !.expenses = call.expenses.rows]
                  /\ Goes(i, [call EXCEPT !.pc = "refreshing"])
                  /\ last' = last
  /\ UNCHANGED <<cal, db, variant, driver, now, result>>

\* refreshAggregates: the two getCategoryTotals of Promise.all, read together
Refresh_getCategoryTotals(i) ==
  /\ i \in DOMAIN tasks.calls
  /\ tasks.calls[i].pc = "refreshing"
  /\ Goes(i, [tasks.calls[i] EXCEPT
                !.pc = "refreshed",
                !.totals = Read(db, Refreshed(db, EmptyStore, now))])
  /\ UNCHANGED <<cal, db, variant, driver, store, now, last, result>>

\* refreshAggregates: set({ thisMonthTotals, lastMonthTotals }), and the call
\* that awaited it returns: loadInitialData through its finally
Refresh_set(i) ==
  /\ i \in DOMAIN tasks.calls
  /\ tasks.calls[i].pc = "refreshed"
  /\ LET call == tasks.calls[i]
         set == IF call.totals.err = "none"
                  THEN [store EXCEPT
                          !.thisMonthTotals = call.totals.rows.thisMonthTotals,
                          !.lastMonthTotals = call.totals.rows.lastMonthTotals]
                  ELSE store
     IN /\ store' = IF call.op = "loadInitialData"
                      THEN [set EXCEPT !.isLoading = FALSE] ELSE set
        /\ Returns(i, call.op, call.totals.err)
  /\ UNCHANGED <<cal, db, variant, driver, now, result>>

\* store.addExpense, called by AddExpenseScreen.handleSave and by the quick add
\* of the dashboard with a category of the cache: the INSERT of
\* ExpenseService.addExpense
AddExpense_insert(input) ==
  /\ variant = "aggregate"
  /\ HasRoom
  /\ \E c \in Elems(store.categories) : c.id = input.categoryId
  /\ LET r == Service_addExpense(db, input)
     IN /\ ExpenseRoom(db, r)
        /\ db' = r.db
        /\ IF r.err = "none"
             THEN /\ tasks' = [tasks EXCEPT !.calls = Append(@,
                                 [op |-> "store.addExpense", pc |-> "created",
                                  created |-> r.created, totals |-> Pending])]
                  /\ last' = last
             ELSE /\ tasks' = tasks
                  /\ last' = Call("store.addExpense", r.err, 0)
  /\ UNCHANGED <<cal, variant, driver, store, now, result>>

\* store.addExpense: set((s) => ({ expenses: [created, ...s.expenses] })) and
\* refreshAggregates() is called
AddExpense_set(i) ==
  /\ InFlight(i, "store.addExpense", "created")
  /\ store' = [store EXCEPT !.expenses = <<tasks.calls[i].created>> \o @]
  /\ Goes(i, [tasks.calls[i] EXCEPT !.pc = "refreshing"])
  /\ UNCHANGED <<cal, db, variant, driver, now, last, result>>

\* store.addCategory: the INSERT of ExpenseService.addCategory
AddCategory_insert(input) ==
  /\ variant = "aggregate"
  /\ HasRoom
  /\ LET r == Service_addCategory(db, input)
     IN /\ CategoryRoom(db, r)
        /\ db' = r.db
        /\ IF r.err = "none"
             THEN /\ tasks' = [tasks EXCEPT !.calls = Append(@,
                                 [op |-> "store.addCategory", pc |-> "created",
                                  created |-> r.created])]
                  /\ last' = last
             ELSE /\ tasks' = tasks
                  /\ last' = Call("store.addCategory", r.err, 0)
  /\ UNCHANGED <<cal, variant, driver, store, now, result>>

\* store.addCategory: set((s) => ({ categories: [...s.categories, created] }))
AddCategory_set(i) ==
  /\ InFlight(i, "store.addCategory", "created")
  /\ store' = [store EXCEPT !.categories = Append(@, tasks.calls[i].created)]
  /\ Returns(i, "store.addCategory", "none")
  /\ UNCHANGED <<cal, db, variant, driver, now, result>>

\* EditExpenseScreen.handleDelete: await ExpenseService.deleteExpense(expense.id)
HandleDelete_deleteExpense(expense) ==
  /\ variant = "aggregate"
  /\ driver = "async"
  /\ HasRoom
  /\ LET r == DeleteExpenseRow(db, expense.id)
     IN /\ db' = r.db
        /\ IF r.err = "none"
             THEN /\ tasks' = [tasks EXCEPT !.calls = Append(@,
                                 [op |-> "handleDelete", pc |-> "deleted"])]
                  /\ last' = last
             ELSE /\ tasks' = tasks
                  /\ last' = Call("handleDelete", r.err, 0)
  /\ UNCHANGED <<cal, variant, driver, store, now, result>>

\* EditExpenseScreen.handleDelete: await loadInitialData()
HandleDelete_loadInitialData(i) ==
  /\ InFlight(i, "handleDelete", "deleted")
  /\ store' = [store EXCEPT !.isLoading = TRUE]
  /\ Goes(i, LoadStarted)
  /\ UNCHANGED <<cal, db, variant, driver, now, last, result>>

TaskIds == 1..MaxTasks

\* the steps of App's effect
NextBoot ==
  \/ App_useEffect
  \/ \E i \in TaskIds : Init_schema(i)
  \/ \E i \in TaskIds : Init_count(i)
  \/ \E i \in TaskIds : Init_seed(i)
  \/ \E i \in TaskIds : Init_return(i)
  \/ \E i \in TaskIds : Load_getCategories(i)
  \/ \E i \in TaskIds : Load_getAllExpenses(i)
  \/ \E i \in TaskIds : Load_set(i)
  \/ \E i \in TaskIds : Refresh_getCategoryTotals(i)
  \/ \E i \in TaskIds : Refresh_set(i)

\* the effect and the calls of the screens
NextAsync ==
  \/ NextBoot
  \/ \E input \in AsyncExpenseInputs : AddExpense_insert(input)
  \/ \E i \in TaskIds : AddExpense_set(i)
  \/ \E input \in AsyncCategoryInputs : AddCategory_insert(input)
  \/ \E i \in TaskIds : AddCategory_set(i)
  \/ \E expense \in Elems(store.expenses) : HandleDelete_deleteExpense(expense)
  \/ \E i \in TaskIds : HandleDelete_loadInitialData(i)

InitAsync == Init /\ variant = "aggregate"

SpecBoot == InitAsync /\ [][NextBoot]_vars

SpecAsync == InitAsync /\ [][NextAsync]_vars

(***************************************************************************)
(* Properties                                                              *)
(***************************************************************************)

\* C1: every expense row's category_id is the id of a category row that
\* exists, in every state the app reaches.
C1_CategoryIdIsLive ==
  \A e \in db.expenses : \E c \in db.categories : c.id = e.categoryId

\* C2: deleteCategory(id) on an existing category removes that category and
\* exactly the expenses whose category_id is id; every other row stays as it
\* was.
C2_DeleteCascadesExactly ==
  [][\A id \in CategoryIdInputs :
       ((deleteCategory(id) \/ Reload_deleteCategory(id))
         /\ \E c \in db.categories : c.id = id)
       => /\ db'.categories = {c \in db.categories : c.id # id}
          /\ db'.expenses = db.expenses \ {e \in db.expenses : e.categoryId = id}
          /\ Cardinality(db.expenses) - Cardinality(db'.expenses)
               = Cardinality({e \in db.expenses : e.categoryId = id})]_vars

\* a category with dependent expenses was deleted while other expenses exist
C2_Witness ==
  /\ last.op \in {"deleteCategory", "store.deleteCategory"}
  /\ last.err = "none"
  /\ last.n >= 1
  /\ db.expenses # {}

StoreMutations == {"store.addExpense", "store.addCategory", "store.deleteCategory"}

\* an expense object with absent notes read as null notes
NotesRead(e) == [e EXCEPT !.notes = IF @ = Undefined THEN Null ELSE @]

\* the cached lists are what getCategories() and getAllExpenses() return
CacheInSync(d, st) ==
  /\ st.categories = getCategories(d)
  /\ [i \in DOMAIN st.expenses |-> NotesRead(st.expenses[i])] = getAllExpenses(d)

\* C3: an addExpense, addCategory or deleteCategory of the store that runs
\* alone, starting with the cached categories and expenses equal to what
\* getCategories() and getAllExpenses() return, completes with them equal
\* again: same elements, same field values, same order.
C3_CacheEqualsStorage ==
  [][(/\ last'.op \in StoreMutations
      /\ last'.err = "none"
      /\ CacheInSync(db, store))
       => CacheInSync(db', store')]_vars

\* the cached totals are getCategoryTotals of the storage for the current
\* and the previous month, one entry per existing category
TotalsInSync(d, st, t) ==
  /\ st.thisMonthTotals
       = getCategoryTotals(d, monthBounds(t).startISO, monthBounds(t).endISO)
  /\ st.lastMonthTotals
       = getCategoryTotals(d, monthBounds(t - MonthLen).startISO,
                           monthBounds(t - MonthLen).endISO)
  /\ Len(st.thisMonthTotals) = Cardinality(d.categories)
  /\ Len(st.lastMonthTotals) = Cardinality(d.categories)

\* C4: a mutation of the aggregate store (addExpense, addCategory, or an edit
\* or delete of an expense followed by loadInitialData) that starts with the
\* cached thisMonthTotals and lastMonthTotals equal to getCategoryTotals of
\* the storage for the current and the previous month completes with them
\* equal again, one entry per existing category.
C4_TotalsEqualStorage ==
  [][(/\ variant = "aggregate"
      /\ last'.op \in {"store.addExpense", "store.addCategory",
                       "handleSave", "handleDelete"}
      /\ last'.err = "none"
      /\ TotalsInSync(db, store, now))
       => TotalsInSync(db', store', now')]_vars

\* C5: an initializeDatabase() that directly follows a successful
\* initializeDatabase() completes without error, inserts no category and
\* leaves the number of categories as the first call left it.
C5_SeedIdempotent ==
  [][\A failAt \in SeedFaults :
       (initializeDatabase(failAt) /\ last.op = "initializeDatabase"
         /\ last.err = "none")
       => /\ last'.err = "none"
          /\ last'.n = 0
          /\ db'.categories = db.categories
          /\ Cardinality(db'.categories) = Cardinality(db.categories)]_vars

\* the second of two initialisations in a row, the first of which seeded
C5_Witness ==
  /\ last.op = "initializeDatabase"
  /\ last.after = "initializeDatabase"
  /\ last.n = 0
  /\ Cardinality(db.categories) = Len(DEFAULT_CATEGORIES)

\* what C6 says of one call that adds a category called name
C6_AddOutcome(name) ==
  IF \E c \in db.categories : c.name = trim(name)
    THEN /\ last'.err = "ConstraintViolation"
         /\ db'.categories = db.categories
    ELSE /\ last'.err = "none"
         /\ \E i \in DOMAIN getCategories(db') :
              /\ getCategories(db')[i].name = trim(name)
              /\ getCategories(db')[i] \notin db.categories

\* C6: on an initialised database, addCategory with a name whose trimmed form
\* is the name of an existing category fails with a constraint violation and
\* leaves the categories table unchanged; with any other name it succeeds and
\* getCategories() returns the new category.  It is stated of
\* ExpenseService.addCategory (reached through the aggregate store) and of
\* the reload store's addCategory.
C6_UniqueTrimmedName ==
  [][\A name \in NameInputs, color \in ColorInputs :
       (db.schema /\ (\/ Aggregate_addCategory([name |-> name, color |-> color])
                      \/ Reload_addCategory(name, color)))
       => C6_AddOutcome(name)]_vars

\* C7: no category name in storage has leading or trailing whitespace,
\* whichever path inserted it.
C7_NamesAreTrimmed ==
  \A c \in db.categories : c.name = trim(c.name)

(***************************************************************************)
(* Properties of the queries (SpecRepo)                                    *)
(***************************************************************************)
\* the exact sum of the amounts of a set of expense rows
RECURSIVE ExactSum(_)
ExactSum(S) ==
  IF S = {} THEN 0
  ELSE LET e == CHOOSE x \in S : TRUE IN e.amount + ExactSum(S \ {e})

\* the exact sum of the totals of a result of getCategoryTotals
RECURSIVE ExactTotal(_)
ExactTotal(rows) ==
  IF rows = <<>> THEN 0 ELSE Head(rows).total + ExactTotal(Tail(rows))

\* the stored expenses dated in [fromISO, toISO)
InWindow(fromISO, toISO) ==
  {e \in db.expenses : fromISO <= e.date /\ e.date < toISO}

\* the row of a result for a category
RowsOf(rows, categoryId) == {i \in DOMAIN rows : rows[i].categoryId = categoryId}

\* C8: for fromISO < toISO, an expense dated toISO is in neither the result
\* of getExpensesInDateRange nor the totals of getCategoryTotals (the totals
\* are those of the storage without it), and an expense dated fromISO is in
\* the result and is one of the amounts its category's total sums.
C8_HalfOpenRange ==
  /\ (last.op = "getExpensesInDateRange" /\ result.fromISO < result.toISO)
       => \A e \in db.expenses :
            /\ e.date = result.toISO => e \notin Elems(result.rows)
            /\ e.date = result.fromISO => e \in Elems(result.rows)
  /\ (last.op = "getCategoryTotals" /\ result.fromISO < result.toISO)
       => \A e \in db.expenses :
            /\ e.date = result.toISO
                 => result.rows
                      = getCategoryTotals([db EXCEPT !.expenses = @ \ {e}],
                                          result.fromISO, result.toISO)
            /\ e.date = result.fromISO
                 => \E i \in DOMAIN result.rows :
                      /\ result.rows[i].categoryId = e.categoryId
                      /\ result.rows[i].total
                           = SUM({x \in InWindow(result.fromISO, result.toISO) :
                                    x.categoryId = e.categoryId}).v

\* totals asked for a window with an expense on each of its two bounds
C8_Witness ==
  /\ last.op = "getCategoryTotals"
  /\ result.fromISO < result.toISO
  /\ \E e \in db.expenses : e.date = result.toISO
  /\ \E e \in db.expenses : e.date = result.fromISO

\* C9: getCategoryTotals returns exactly one row per existing category, and
\* total = 0 for a category with no expense dated in [fromISO, toISO).
C9_OneRowPerCategory ==
  last.op = "getCategoryTotals"
    => /\ Len(result.rows) = Cardinality(db.categories)
       /\ \A i \in DOMAIN result.rows :
            \E c \in db.categories : c.id = result.rows[i].categoryId
       /\ \A c \in db.categories :
            /\ Cardinality(RowsOf(result.rows, c.id)) = 1
            /\ ({e \in InWindow(result.fromISO, result.toISO) : e.categoryId = c.id} = {})
                 => \A i \in RowsOf(result.rows, c.id) : result.rows[i].total = 0

\* totals with a zero row and a non-zero row, after a category was deleted
C9_Witness ==
  /\ last.op = "getCategoryTotals"
  /\ Cardinality(db.categories) < Len(DEFAULT_CATEGORIES)
  /\ \E i \in DOMAIN result.rows : result.rows[i].total = 0
  /\ \E i \in DOMAIN result.rows : result.rows[i].total # 0

NoRounding(fromISO, toISO) ==
  \A c \in db.categories :
    LET rows == {e \in InWindow(fromISO, toISO) : e.categoryId = c.id}
    IN SUM(rows).v = ExactSum(rows)

C11_TotalsNonIncreasing ==
  last.op = "getCategoryTotals"
    => \A i \in DOMAIN result.rows, j \in DOMAIN result.rows :
         i < j => result.rows[i].total >= result.rows[j].total

\* C12: getAllExpenses() and getExpensesInDateRange() return the expenses with
\* non-increasing date and, among expenses of one date, decreasing id; the
\* first returns every stored expense.
C12_ExpensesNewestFirst ==
  /\ last.op \in {"getAllExpenses", "getExpensesInDateRange"}
       => \A i \in DOMAIN result.rows, j \in DOMAIN result.rows :
            i < j => \/ result.rows[i].date > result.rows[j].date
                     \/ /\ result.rows[i].date = result.rows[j].date
                        /\ result.rows[i].id > result.rows[j].id
  /\ last.op = "getAllExpenses" => Elems(result.rows) = db.expenses

\* two expenses of one date were listed
C12_Witness ==
  /\ last.op \in {"getAllExpenses", "getExpensesInDateRange"}
  /\ Len(result.rows) = 2
  /\ result.rows[1].date = result.rows[2].date

\* what getAllExpenses() returns for the expense an add inserted: the rows
\* whose id was not in the table before
NewRows(d, dAfter) ==
  {i \in DOMAIN getAllExpenses(dAfter) :
     \A e \in d.expenses : e.id # getAllExpenses(dAfter)[i].id}

\* the round trip of input, with notesBack the notes that may come back
RoundTrip(input, notesBack) ==
  /\ Cardinality(NewRows(db, db')) = 1
  /\ \A i \in NewRows(db, db') :
       LET row == getAllExpenses(db')[i]
       IN /\ row.amount = input.amount
          /\ row.categoryId = input.categoryId
          /\ row.date = input.date
          /\ row.notes \in notesBack
          /\ (\A e \in db.expenses : e.date < input.date) => i = 1

\* C13 as claimed: after a successful addExpense(e), getAllExpenses() holds
\* one new expense whose amount, categoryId, date and notes equal those of e,
\* first in the list when its date is strictly the most recent; also when e
\* has no notes.
C13_RoundTrip ==
  [][\A input \in AddExpenseInputs :
       ((Reload_addExpense(input) \/ Aggregate_addExpense(input))
         /\ last'.err = "none")
       => RoundTrip(input, {input.notes})]_vars

\* C13 amended: the same, with notes equal to those of e when e has notes;
\* when e has none, the expense comes back with notes null (ExpenseService)
\* or the empty string (the reload store).
C13_RoundTripNotesDefaulted ==
  [][\A input \in AddExpenseInputs :
       /\ (Aggregate_addExpense(input) /\ last'.err = "none")
            => RoundTrip(input, IF input.notes = Undefined THEN {Null}
                                ELSE {input.notes})
       /\ (Reload_addExpense(input) /\ last'.err = "none")
            => RoundTrip(input, IF input.notes = Undefined THEN {""}
                                ELSE {input.notes})]_vars

\* an expense without notes was added after one with notes, with a later
\* date, and is listed first
C13_Witness ==
  /\ last.op = "store.addExpense"
  /\ last.err = "none"
  /\ Len(getAllExpenses(db)) = 2
  /\ getAllExpenses(db)[1].id = 2
  /\ getAllExpenses(db)[1].date > getAllExpenses(db)[2].date
  /\ getAllExpenses(db)[1].notes \in {Null, ""}
  /\ getAllExpenses(db)[2].notes = "lunch"

\* C14: on an initialised database, addExpense with a categoryId that is the
\* id of no category fails with a foreign-key violation, inserts no expense
\* row and leaves the cache as it was.
C14_AddRefusedWithoutCategory ==
  [][\A input \in AddExpenseInputs :
       ((Aggregate_addExpense(input) \/ Reload_addExpense(input))
         /\ db.schema
         /\ \A c \in db.categories : c.id # input.categoryId)
       => /\ last'.err = "ForeignKeyViolation"
          /\ db'.expenses = db.expenses
          /\ store' = store]_vars

\* what C15 says of updateExpense(id, updatedData): the row with that id has
\* the four fields as supplied, every other row is as it was
UpdatedExactly(id, updatedData) ==
  /\ db'.expenses = {IF e.id = id
                       THEN [id |-> id, amount |-> updatedData.amount,
                             categoryId |-> updatedData.categoryId,
                             date |-> updatedData.date, notes |-> updatedData.notes]
                       ELSE e : e \in db.expenses}
  /\ db'.categories = db.categories

C16_NoRowNoError ==
  [][/\ \A id \in ExpenseIdInputs, updatedData \in RepoUpdateInputs :
          (updateExpense(id, updatedData) /\ db.schema
            /\ \A e \in db.expenses : e.id # id)
          => last'.err = "none" /\ db' = db
     /\ \A id \in ExpenseIdInputs :
          /\ (deleteExpense(id) /\ db.schema /\ \A e \in db.expenses : e.id # id)
               => last'.err = "none" /\ db' = db
          /\ (deleteExpense(id) /\ db.schema)
               => /\ last'.err = "none"
                  /\ DeleteExpenseRow(db', id) = [db |-> db', err |-> "none", id |-> 0]
     /\ \A id \in RepoCategoryIdInputs :
          /\ (deleteCategory(id) /\ db.schema /\ \A c \in db.categories : c.id # id)
               => last'.err = "none" /\ db' = db
          /\ (deleteCategory(id) /\ db.schema)
               => /\ last'.err = "none"
                  /\ DeleteCategoryRow(db', id) = [db |-> db', err |-> "none", id |-> 0]
    ]_vars

\* a deleteExpense that matched no row, while another expense is stored
C16_Witness ==
  /\ last.op = "deleteExpense"
  /\ last.err = "none"
  /\ last.n = 0
  /\ db.expenses # {}

\* C17: a loadInitialData that fails at one of its steps (reading the
\* categories, reading the expenses, recomputing the aggregates) ends with
\* the cached categories and expenses empty.
C17_FailedLoadEmptiesCache ==
  [][\A fault \in LoadFaults :
       ((Reload_loadInitialData(fault) \/ Aggregate_loadInitialData(fault))
         /\ (fault # NoLoadFault \/ ~db.schema))
       => store'.categories = <<>> /\ store'.expenses = <<>>]_vars

\* what C18 says of a store mutation whose statement raised err
RejectsUnchanged(err) ==
  err # "none" => last'.err = err /\ store' = store /\ db' = db

\* C18: when the statement of a store mutation (addCategory, addExpense,
\* deleteCategory, of either store) fails, the action rejects with the
\* statement's error and leaves the cached categories, expenses and
\* aggregates as they were.
C18_MutationErrorPropagates ==
  [][/\ \A name \in NameInputs, color \in ColorInputs :
          /\ Reload_addCategory(name, color)
               => RejectsUnchanged(InsertCategory(db, name, color).err)
          /\ Aggregate_addCategory([name |-> name, color |-> color])
               => RejectsUnchanged(InsertCategory(db, trim(name), color).err)
     /\ \A id \in CategoryIdInputs :
          Reload_deleteCategory(id) => RejectsUnchanged(DeleteCategoryRow(db, id).err)
     /\ \A expense \in ExpenseInputs :
          (Reload_addExpense(expense) \/ Aggregate_addExpense(expense))
            => RejectsUnchanged(InsertExpense(db, expense.amount, expense.categoryId,
                                              expense.date, Null).err)
    ]_vars

\* the reload store refused a duplicate category, its cache loaded
C18_Witness ==
  /\ variant = "reload"
  /\ last.op = "store.addCategory"
  /\ last.err = "ConstraintViolation"
  /\ Len(store.categories) = Cardinality(db.categories)
  /\ store.categories # <<>>

\* C19: the seed is all or nothing: an initializeDatabase() on an empty
\* categories table, whether it returns or fails at one of the six inserts,
\* leaves the table with none or with all six of the default categories.
C19_SeedAllOrNothing ==
  [][\A failAt \in SeedFaults :
       (initializeDatabase(failAt) /\ db.categories = {})
       => Cardinality(db'.categories) \in {0, Len(DEFAULT_CATEGORIES)}]_vars

\* C20: whatever initializeDatabase() calls, category adds and category
\* deletes a store has seen, the default categories have been inserted at
\* most once: an initializeDatabase() after the one that seeded never
\* inserts them again.
C20_SeedOnlyOnce == db.seeds <= 1

\* C24: every category listing operation (ExpenseService.getCategories of the
\* two modules and the exported getCategories) returns all the categories, in
\* ascending order of name.
C24_CategoriesByName ==
  last.op \in {"getCategories", "export.getCategories"}
    => /\ Elems(result.rows) = db.categories
       /\ Len(result.rows) = Cardinality(db.categories)
       /\ \A i \in DOMAIN result.rows, j \in DOMAIN result.rows :
            i < j => TextLess(result.rows[i].name, result.rows[j].name)

\* C26: every expense the screens write (Add Expense save, quick add, Edit
\* Expense save) has an amount that is a number greater than 0: no stored
\* expense has a zero, negative or non-numeric amount.
C26_AmountsArePositive ==
  \A e \in db.expenses : ~isNaN(e.amount) /\ e.amount > 0

(***************************************************************************)
(* Properties of the month windows (SpecCalendar)                          *)
(***************************************************************************)
\* the text of the first instant of a month, the month counted from January
\* of year
FirstOfMonth(year, month) == ISOText(year + (month \div 12), month % 12, 1, 0)

\* C22: for every instant d, monthBounds(d) gives startISO = 00:00:00 UTC on
\* the 1st of d's UTC month and endISO = 00:00:00 UTC on the 1st of the month
\* after it, January of the next year for December; d is at or after
\* startISO and before endISO, as texts and as instants.
C22_MonthBoundsOfUTCMonth ==
  cal.op = "monthBounds"
    => /\ cal.out.startISO = ISOText(cal.wall.year, cal.wall.month, 1, 0)
       /\ cal.out.endISO
            = IF cal.wall.month = 11 THEN ISOText(cal.wall.year + 1, 0, 1, 0)
              ELSE ISOText(cal.wall.year, cal.wall.month + 1, 1, 0)
       /\ ~TextLess(toISOString(cal.now), cal.out.startISO)
       /\ TextLess(toISOString(cal.now), cal.out.endISO)
       /\ ~TimeLess(cal.now, Date_parse(cal.out.startISO, 0))
       /\ TimeLess(cal.now, Date_parse(cal.out.endISO, 0))

\* the bounds of a December, asked at its last millisecond
C22_Witness ==
  /\ cal.op = "monthBounds"
  /\ cal.wall.month = 11
  /\ cal.wall.date = 31
  /\ cal.wall.time = msPerDay - 1
  /\ cal.out.endISO = ISOText(cal.wall.year + 1, 0, 1, 0)

\* C23: for every reading of the clock, the last-month window of
\* refreshAggregates is the UTC calendar month before now's month, December
\* of the year before for January; it ends where the this-month window
\* starts.
C23_LastMonthIsPreviousMonth ==
  cal.op = "refreshAggregates"
    => /\ cal.out.lastStart = FirstOfMonth(cal.wall.year - 1, 12 + cal.wall.month - 1)
       /\ cal.out.lastEnd = FirstOfMonth(cal.wall.year, cal.wall.month)
       /\ cal.out.lastEnd = cal.out.thisStart
       /\ TextLess(cal.out.lastStart, cal.out.lastEnd)
       /\ cal.wall.month = 0
            => cal.out.lastStart = ISOText(cal.wall.year - 1, 11, 1, 0)

\* the windows asked on a 31st of March, after a February of 28 days
C23_Witness ==
  /\ cal.op = "refreshAggregates"
  /\ cal.wall.month = 2
  /\ cal.wall.date = 31
  /\ DaysInMonth(cal.wall.year, 1) = 28
  /\ cal.out.lastStart = ISOText(cal.wall.year, 1, 1, 0)

(***************************************************************************)
(* Properties of the dates (SpecDates)                                     *)
(***************************************************************************)
\* YYYY-MM-DDTHH:mm:ss.sssZ, the text toISOString gives for its instant
IsCanonicalISO(text) ==
  /\ Len(text) = 24
  /\ text[11] = 84
  /\ text[24] = 90
  /\ text = toISOString(Date_parse(text, 0))

\* WHERE date >= ? AND date < ? on the texts
LexInWindow(text, w) == ~TextLess(text, w.startISO) /\ TextLess(text, w.endISO)

\* the instant is in the window
InstantInWindow(t, w) ==
  ~TimeLess(t, Date_parse(w.startISO, 0)) /\ TimeLess(t, Date_parse(w.endISO, 0))

\* C21: the date text of an expense, whichever screen wrote it (Add Expense,
\* quick add, Edit Expense), is a canonical ISO-8601 timestamp with time and
\* UTC marker, and for every month window of monthBounds (the month of the
\* instant, the one before and the one after are those that can differ) the
\* comparison of the texts agrees with the place of the instant.
C21_DatesAreCanonical ==
  cal.date # NoDate
    => /\ IsCanonicalISO(cal.date)
       /\ \A k \in -1..1 :
            LET t == Date_parse(cal.date, cal.tza)
                w == monthBoundsISO(Date_UTC(getUTCFullYear(t), getUTCMonth(t) + k,
                                             1, 0, 0, 0))
            IN LexInWindow(cal.date, w) <=> InstantInWindow(t, w)

\* C30: for every current date, lastMonthExpenses of the dashboard holds a
\* cached expense exactly when it is dated in the calendar month before the
\* current one (December of the year before, in January), and never together
\* with thisMonthExpenses.
C30_LastMonthIsPreviousMonth ==
  cal.op = "dashboard"
    => LET d == Date_parse(cal.date, cal.tza)
           prev == cal.wall.year * 12 + cal.wall.month - 1
       IN /\ cal.out.last
               <=> getFullYear(d, cal.tza) * 12 + getMonth(d, cal.tza) = prev
          /\ ~(cal.out.last /\ cal.out.this)

\* the steps of the store and of the screens that send a statement to the engine
StoreStatement ==
  \/ \E i \in TaskIds : Load_getCategories(i)
  \/ \E i \in TaskIds : Load_getAllExpenses(i)
  \/ \E i \in TaskIds : Refresh_getCategoryTotals(i)
  \/ \E input \in AsyncExpenseInputs : AddExpense_insert(input)
  \/ \E input \in AsyncCategoryInputs : AddCategory_insert(input)
  \/ \E expense \in Elems(store.expenses) : HandleDelete_deleteExpense(expense)

\* C28: no statement of the store or of the screens reaches the engine before
\* an initializeDatabase() has returned, tables created and defaults seeded.
C28_NoStatementBeforeInitialized == [][StoreStatement => tasks.ready]_vars

LoadsInFlight ==
  {i \in DOMAIN tasks.calls : tasks.calls[i].op = "loadInitialData"}

\* C29: isLoading is true exactly while at least one loadInitialData() is in
\* flight, between its first set and its finally.
C29_IsLoadingIffLoadInFlight == store.isLoading <=> LoadsInFlight # {}

\* C27: of two initializeDatabase() calls that overlap on an empty store none
\* fails with a uniqueness violation, and once both have ended the store holds
\* the six default categories and nothing else.
C27_OverlappingInitSeedsOnce ==
  /\ last.op = "initializeDatabase" => last.err # "ConstraintViolation"
  /\ (tasks.effects = MaxEffects /\ tasks.calls = <<>>)
       => /\ Cardinality(db.categories) = Len(DEFAULT_CATEGORIES)
          /\ {c.name : c \in db.categories}
               = {DEFAULT_CATEGORIES[i].name : i \in DOMAIN DEFAULT_CATEGORIES}

\* C25: once every call in flight has ended, the cached categories and expenses
\* are the rows of storage: no load that read before a write overwrites the
\* cache after the write's own update of it.
C25_CacheEqualsStorageWhenIdle ==
  (tasks.ready /\ tasks.calls = <<>>) => CacheInSync(db, store)

====
